---- MODULE Spec2Model ----
(***************************************************************************)
(* Cursor-input subsystem: the managed input supervisor (input.go), the    *)
(* reconciling store with its in-memory state table (store.go), the ACK    *)
(* handler, and the composed loader (compat/composed.go).                  *)
(***************************************************************************)
EXTENDS Integers, Sequences, FiniteSets, TLC

(* ------------------------------------------------------------------ *)
(* Bounds                                                              *)
(* ------------------------------------------------------------------ *)
MaxEvents == 3      \* events published in the store specification
RunEvents == 1      \* events published in the supervisor specification
MaxCrashes == 1
MaxTime == 3        \* instants of the wall clock in the clock specification

(* ------------------------------------------------------------------ *)
(* Configuration: two supervisor Run calls of the same input type.     *)
(* Run r1 has the sources a and b, run r2 has the source a again.      *)
(* ------------------------------------------------------------------ *)
Runs == {"r1", "r2"}
Workers == {"w1", "w2", "w3"}
RunOf(w) == IF w = "w3" THEN "r2" ELSE "r1"
SourceOf(w) == IF w = "w2" THEN "b" ELSE "a"
WorkersOf(r) == {w \in Workers : RunOf(w) = r}
managerType == "log"
userID(r) == ""
cleanTimeout(r) == IF r = "r1" THEN 1 ELSE 2
PanicValues == {"boom"}

\* resource.pending is an atomic.Uint64.  The counter wraps on underflow; the
\* model keeps the wrap-around with a narrower modulus that fits TLC's
\* 32-bit integers.
PendingMod == 2^16

(* ------------------------------------------------------------------ *)
(* Errors                                                              *)
(* ------------------------------------------------------------------ *)
NilErr == [kind |-> "nil", val |-> ""]
FatalErr == [kind |-> "fatal", val |-> ""]
CanceledErr == [kind |-> "canceled", val |-> ""]
ConnectErr == [kind |-> "connect", val |-> ""]
PanicErr(v) == [kind |-> "panic", val |-> v]

(* ------------------------------------------------------------------ *)
(* Resource keys                                                       *)
(* ------------------------------------------------------------------ *)
\* createSourceID that leaves out the source name
createSourceID_noname(r, name) ==
    IF userID(r) # "" THEN <<managerType, userID(r)>>
    ELSE <<managerType>>

createSourceID(r, name) ==
    IF userID(r) # "" THEN <<managerType, userID(r), name>>
    ELSE <<managerType, name>>
KeyOf(w) == createSourceID(RunOf(w), SourceOf(w))
Keys == {KeyOf(w) : w \in Workers}

VARIABLES
    pc,          \* position of every worker goroutine
    werr,        \* error value a worker returns from runSource
    panicked,    \* panic value raised in a worker's Input.Run ("" if none)
    runState,    \* "idle", "running" or "returned" per supervisor Run
    cancelled,   \* the child cancellation of a Run has fired
    grpErrs,     \* errors collected by the Run's MultiErrGroup
    runResult,   \* errors wrapped into the value Run returned
    clientOpen,  \* the worker's pipeline client is connected and not closed
    outstanding, \* per worker: private data of published, unacknowledged events
    table,       \* states.table: key -> resource
    persisted,   \* the registry of the persistent store: key -> record
    published,   \* number of Publish calls made so far
    crashes,     \* number of crash/restart cycles so far
    now,         \* wall clock (time.Now), 0 is the zero instant
    lastAck,     \* the last ACK batch handled and the store calls it made
    acked,       \* per key: cursors of update operations already acknowledged
    lastAcked,   \* per key: cursor of the last acknowledged update operation
    lastDurable, \* per key: cursor of the last acknowledged update that was persisted
    started,     \* per worker: the instant its goroutine was started
    handle,      \* store.refCount and what happened to the persistent store handle
    ld,          \* composed loader: the call made and its result
    rg,          \* plugin registry: its contents, the call made and its result
    sc,          \* calls made on the store directly: the last call, its result, retains held
    ec           \* the pipeline's eventConsumer, its loop and the goroutines that signal it

vars == <<pc, werr, panicked, runState, cancelled, grpErrs, runResult, clientOpen,
          outstanding, table, persisted, published, crashes, now, lastAck, acked,
          lastAcked, lastDurable, started, handle, ld, rg, sc, ec>>

workerVars == <<pc, werr, panicked, clientOpen>>
runVars == <<runState, cancelled, grpErrs, runResult>>
storeVars == <<table, persisted>>
histVars == <<lastAck, acked, lastAcked, lastDurable, started>>
sideVars == <<ld, rg, sc, ec>>
coreVars == <<pc, werr, panicked, runState, cancelled, grpErrs, runResult, clientOpen,
              outstanding, table, persisted, published, crashes, now, lastAck, acked,
              lastAcked, lastDurable, started, handle>>

(* ------------------------------------------------------------------ *)
(* resource (store.go): pending, lock, stored, internalInSync, state   *)
(* A zero ttl/updated is the zero value, cursor 0 is the nil cursor.   *)
(* ------------------------------------------------------------------ *)
NoResource ==
    [exists |-> FALSE, pending |-> 0, locked |-> FALSE, stored |-> FALSE,
     internalInSync |-> FALSE, ttl |-> 0, updated |-> 0, cursor |-> 0]

\* the resource literal of states.Find
NewResource ==
    [exists |-> TRUE, pending |-> 0, locked |-> FALSE, stored |-> FALSE,
     internalInSync |-> FALSE, ttl |-> 0, updated |-> 0, cursor |-> 0]

NoRecord == [present |-> FALSE, ttl |-> 0, updated |-> 0, cursor |-> 0]

Retain(res) == [res EXCEPT !.pending = (res.pending + 1) % PendingMod]
\* Release that leaves the counter alone
Release_none(res) == res

Release(res) == [res EXCEPT !.pending = (res.pending + PendingMod - 1) % PendingMod]
Finished(res) == res.pending = 0
IsNew(res) == res.cursor = 0
\* Unlock that gives up the retain and leaves the lock taken
Unlock_keeplock(res) == Release(res)
Unlock(res) == Release([res EXCEPT !.locked = FALSE])
resourceUpdateCursor(res, val) == [res EXCEPT !.cursor = val]

RECURSIVE ReleaseN(_, _)
ReleaseN(res, n) == IF n = 0 THEN res ELSE ReleaseN(Release(res), n - 1)


(* ------------------------------------------------------------------ *)
(* Persistent store: tx.Update merges the fields an update command     *)
(* names into the record and leaves the other fields alone.            *)
(* ------------------------------------------------------------------ *)
TxUpdate(rec, cmd) ==
    [present |-> TRUE,
     ttl     |-> IF cmd.hasTTL THEN cmd.ttl ELSE rec.ttl,
     updated |-> IF cmd.hasUpdated THEN cmd.updated ELSE rec.updated,
     cursor  |-> IF cmd.hasCursor THEN cmd.cursor ELSE rec.cursor]

\* registryStateUpdateInternal{Internal: data}
registryStateUpdateInternal(data) ==
    [hasTTL |-> TRUE, ttl |-> data.ttl, hasUpdated |-> TRUE, updated |-> data.updated,
     hasCursor |-> FALSE, cursor |-> 0]

\* registryStateUpdateCursor{Internal: {Updated: timestamp}, Cursor: updates}
registryStateUpdateCursor(timestamp, updates) ==
    [hasTTL |-> FALSE, ttl |-> 0, hasUpdated |-> TRUE, updated |-> timestamp,
     hasCursor |-> TRUE, cursor |-> updates]

stateInternal(res) == [ttl |-> res.ttl, updated |-> res.updated]

\* UpdateInternal that writes the whole in-memory state, cursor included
storeUpdateInternal_state(res, rec, ok, t) ==
    LET data == [ttl |-> res.ttl,
                 updated |-> IF res.updated = 0 THEN t ELSE res.updated]
    IN IF ok
       THEN [res |-> [res EXCEPT !.stored = TRUE, !.internalInSync = TRUE],
             rec |-> [present |-> TRUE, ttl |-> data.ttl, updated |-> data.updated,
                      cursor |-> res.cursor]]
       ELSE [res |-> [res EXCEPT !.internalInSync = FALSE], rec |-> rec]

\* UpdateInternal that marks the resource as stored before it looks at the error
storeUpdateInternal_failstored(res, rec, ok, t) ==
    LET data == [ttl |-> res.ttl,
                 updated |-> IF res.updated = 0 THEN t ELSE res.updated]
    IN IF ok
       THEN [res |-> [res EXCEPT !.stored = TRUE, !.internalInSync = TRUE],
             rec |-> TxUpdate(rec, registryStateUpdateInternal(data))]
       ELSE [res |-> [res EXCEPT !.stored = TRUE, !.internalInSync = FALSE], rec |-> rec]

\* store.UpdateInternal; ok is the outcome of persistentStore.Update, t is time.Now()
storeUpdateInternal(res, rec, ok, t) ==
    LET data == [ttl |-> res.ttl,
                 updated |-> IF res.updated = 0 THEN t ELSE res.updated]
    IN IF ok
       THEN [res |-> [res EXCEPT !.stored = TRUE, !.internalInSync = TRUE],
             rec |-> TxUpdate(rec, registryStateUpdateInternal(data))]
       ELSE [res |-> [res EXCEPT !.internalInSync = FALSE], rec |-> rec]

\* UpdateCursor that persists the in-memory cursor of the resource instead of
\* the cursor carried by the acknowledged update operation
storeUpdateCursor_inmem(res, rec, timestamp, updates, ok) ==
    IF ok
    THEN [res |-> [res EXCEPT !.internalInSync = TRUE, !.stored = TRUE],
          rec |-> [present |-> TRUE,
                   ttl |-> IF res.internalInSync THEN rec.ttl ELSE res.ttl,
                   updated |-> timestamp, cursor |-> res.cursor]]
    ELSE [res |-> res, rec |-> rec]

\* UpdateCursor that writes the cursor only and never retries the internal fields
storeUpdateCursor_noflush(res, rec, timestamp, updates, ok) ==
    IF ok
    THEN [res |-> [res EXCEPT !.internalInSync = TRUE, !.stored = TRUE],
          rec |-> TxUpdate(rec, registryStateUpdateCursor(timestamp, updates))]
    ELSE [res |-> res, rec |-> rec]

\* store.UpdateCursor; ok is the outcome of persistentStore.Update
storeUpdateCursor(res, rec, timestamp, updates, ok) ==
    LET rec1 == IF ~res.internalInSync
                THEN TxUpdate(rec, registryStateUpdateInternal(stateInternal(res)))
                ELSE rec
    IN IF ok
       THEN [res |-> [res EXCEPT !.internalInSync = TRUE, !.stored = TRUE],
             rec |-> TxUpdate(rec1, registryStateUpdateCursor(timestamp, updates))]
       ELSE [res |-> res, rec |-> rec]

\* store.UpdateTTL: set the configured ttl, then write the internal fields
storeUpdateTTL(res, rec, ttl, ok, t) ==
    storeUpdateInternal([res EXCEPT !.ttl = ttl], rec, ok, t)

\* Find without the lookup of an existing entry: every call installs a fresh resource
Find_fresh(tbl, key, create) ==
    IF ~create THEN tbl ELSE [tbl EXCEPT ![key] = Retain(NewResource)]

\* Find that hands out an existing resource without retaining it
Find_noretain(tbl, key, create) ==
    IF tbl[key].exists THEN tbl
    ELSE IF ~create THEN tbl
    ELSE [tbl EXCEPT ![key] = Retain(NewResource)]

\* Find that creates the missing resource whether or not the caller asked for it
Find_autocreate(tbl, key, create) ==
    IF tbl[key].exists THEN [tbl EXCEPT ![key] = Retain(tbl[key])]
    ELSE [tbl EXCEPT ![key] = Retain(NewResource)]

\* states.Find(key, create): the table after the call
Find(tbl, key, create) ==
    IF tbl[key].exists THEN [tbl EXCEPT ![key] = Retain(tbl[key])]
    ELSE IF ~create THEN tbl
    ELSE [tbl EXCEPT ![key] = Retain(NewResource)]

\* states.Find(key, create): the resource returned, named by its key; <<>> is nil
FindResult(tbl, key, create) ==
    IF tbl[key].exists THEN key
    ELSE IF ~create THEN <<>>
    ELSE key

\* strings.HasPrefix(string(k), prefix + "::"): a key is the list of its
\* "::"-separated parts
HasPrefix(k, prefix) == k[1] = prefix

\* dec.Decode(&st) succeeds on a record whose internal fields are a duration
\* and a timestamp; a field of another type is written as a negative number
Decodable(rec) == rec.ttl >= 0 /\ rec.updated >= 0

\* readStates that installs the records of every input type
readStates_noprefix(store, prefix) ==
    [k \in DOMAIN store |->
        IF store[k].present /\ Decodable(store[k])
        THEN [exists |-> TRUE, pending |-> 0, locked |-> FALSE, stored |-> TRUE,
              internalInSync |-> FALSE, ttl |-> store[k].ttl,
              updated |-> store[k].updated, cursor |-> store[k].cursor]
        ELSE NoResource]

\* readStates: load every decodable record with the input type's prefix
readStates(store, prefix) ==
    [k \in DOMAIN store |->
        IF store[k].present /\ HasPrefix(k, prefix) /\ Decodable(store[k])
        THEN [exists |-> TRUE, pending |-> 0, locked |-> FALSE, stored |-> TRUE,
              internalInSync |-> FALSE, ttl |-> store[k].ttl,
              updated |-> store[k].updated, cursor |-> store[k].cursor]
        ELSE NoResource]

(* ------------------------------------------------------------------ *)
(* store.Migrate.  A value is a document with a representation: a Go   *)
(* struct, a generic map, or a value typeconv can not convert.  The    *)
(* in-memory cursor holds a document; cursors are numbers here, so a   *)
(* document is written as a number that tells representations apart.   *)
(* ------------------------------------------------------------------ *)
NoValue == [form |-> "map", ttl |-> 0, updated |-> 0, cursor |-> 0]
MigrateValues ==
    {[form |-> f, ttl |-> 9, updated |-> 3, cursor |-> c] :
        f \in {"struct", "map", "chan"}, c \in {0, 7}}

\* typeconv.Convert(&tmp, value): the generic copy of value
typeconvConvert(value) ==
    IF value.form = "chan" THEN [ok |-> FALSE, tmp |-> NoValue]
    ELSE [ok |-> TRUE, tmp |-> [value EXCEPT !.form = "map"]]

CursorValue(doc) ==
    (IF doc.form = "map" THEN 100 ELSE 200) + 10 * doc.ttl + doc.cursor

\* tx.Set(key, value): the record is the serialised value, nothing of the old
\* record is kept
txSet(value) ==
    [present |-> TRUE, ttl |-> value.ttl, updated |-> value.updated,
     cursor |-> value.cursor]

\* resource.SetCursor
resourceSetCursor(res, c) == [res EXCEPT !.cursor = c]

\* Migrate that sets the in-memory cursor before it looks at the result of the write
storeMigrate_setfirst(res, rec, value, ok) ==
    LET conv == typeconvConvert(value)
    IN IF ~conv.ok
       THEN [res |-> res, rec |-> rec, err |-> "failed to serialized state"]
       ELSE IF ~ok
            THEN [res |-> resourceSetCursor(res, CursorValue(conv.tmp)), rec |-> rec,
                  err |-> "failed to set key"]
            ELSE [res |-> resourceSetCursor(res, CursorValue(conv.tmp)),
                  rec |-> txSet(value), err |-> ""]

\* store.Migrate; ok is the outcome of persistentStore.Update
storeMigrate(res, rec, value, ok) ==
    LET conv == typeconvConvert(value)
    IN IF ~conv.ok
       THEN [res |-> res, rec |-> rec, err |-> "failed to serialized state"]
       ELSE IF ~ok
            THEN [res |-> res, rec |-> rec, err |-> "failed to set key"]
            ELSE [res |-> resourceSetCursor(res, CursorValue(conv.tmp)),
                  rec |-> txSet(value), err |-> ""]

(* ------------------------------------------------------------------ *)
(* store.refCount and the persistent store handle.  A concert.RefCount *)
(* starts with the one reference of whoever opened the store; its      *)
(* Action runs when a Release takes the count to zero.                 *)
(* ------------------------------------------------------------------ *)
\* the store literal of openStore: the session owns the first reference
openStore ==
    [refs |-> 1, session |-> TRUE, cleaner |-> "off", closes |-> 0, late |-> FALSE]

\* refCount.Action: persistentStore.Close()
refCountAction(h) == [h EXCEPT !.closes = @ + 1]

storeRetain(h) == [h EXCEPT !.refs = @ + 1]

\* Release that drops the reference and never runs the Action
storeRelease_noaction(h) == [h EXCEPT !.refs = @ - 1]

\* store.Release
storeRelease(h) ==
    LET h1 == [h EXCEPT !.refs = @ - 1]
    IN IF h1.refs = 0 THEN refCountAction(h1) ELSE h1

RECURSIVE storeReleaseN(_, _)
storeReleaseN(h, n) == IF n = 0 THEN h ELSE storeReleaseN(storeRelease(h), n - 1)

\* persistentStore.Update / View is issued; late records a call on a closed handle
storeUse(h) == IF h.closes > 0 THEN [h EXCEPT !.late = TRUE] ELSE h

(* ------------------------------------------------------------------ *)
(* Update operations and the ACK handler                               *)
(* ------------------------------------------------------------------ *)
UpdateOp(c, t) == [kind |-> "op", cursor |-> c, ts |-> t]
NilEntry == [kind |-> "nil", cursor |-> 0, ts |-> 0]
ForeignEntry == [kind |-> "foreign", cursor |-> 0, ts |-> 0]

\* the scan skips nil entries only and takes every other entry for an update operation
isUpdateOp_notnil(current) == current.kind # "nil"

\* the two tests of the scan: current != nil and current.(*updateOp)
isUpdateOp(current) == current.kind # "nil" /\ current.kind = "op"

\* the scan keeps the first update operation instead of the last one
ackLast_first(last, i) == IF last = 0 THEN i ELSE last

\* last = i
ackLast(last, i) == i

\* the scan of newInputACKHandler; last = 0 stands for the initial value
RECURSIVE ackScan(_, _, _, _)
ackScan(private, i, n, last) ==
    IF i > Len(private) THEN [n |-> n, last |-> last]
    ELSE IF isUpdateOp(private[i])
         THEN ackScan(private, i + 1, n + 1, ackLast(last, i))
         ELSE ackScan(private, i + 1, n, last)

\* updateOp.Execute(n): set the updated timestamp, write the cursor, release
\* the retains of the n collapsed operations
Execute(op, n, res, rec, ok) ==
    LET r == storeUpdateCursor([res EXCEPT !.updated = op.ts], rec, op.ts, op.cursor, ok)
    IN [res |-> ReleaseN(r.res, n), rec |-> r.rec]

\* updateOp.Execute(n) seen from the store: the registry write is issued, then
\* the n collapsed operations end their in-flight window and give up the store
ExecuteStore(h, n) == storeReleaseN(storeUse(h), n)


(* ------------------------------------------------------------------ *)
(* Initial state: nothing persisted, nothing loaded, no Run started    *)
(* ------------------------------------------------------------------ *)
NoResult == [isNil |-> TRUE, errs |-> {}]
\* inSync and ok: resource.internalInSync when the handler was called, and the
\* outcome of the registry write it issued
NoAck == [w |-> "none", private |-> <<>>, n |-> 0, calls |-> <<>>, inSync |-> TRUE,
          ok |-> TRUE]

(* ------------------------------------------------------------------ *)
(* Loader errors and the composed loader (compat/composed.go)          *)
(* An error is the chain of its layers, outermost first; Unwrap drops  *)
(* the outermost layer; the nil error is the empty chain.              *)
(* ------------------------------------------------------------------ *)
NoError == <<>>
ErrUnknown == <<"unknown input type">>
\* &LoaderError{Name: name, Reason: reason}; Unwrap returns the reason
LoaderError(name, reason) == <<"LoaderError " \o name>> \o reason
sderrWrap(err, msg) == <<msg>> \o err

RECURSIVE sderrIs(_, _)
sderrIs(err, target) ==
    IF err = NoError THEN FALSE
    ELSE err = target \/ sderrIs(Tail(err), target)

IsUnknownInputError(err) == sderrIs(err, ErrUnknown)

NoOutcome == [runner |-> "", err |-> NoError]
\* what a RunnerFactory can answer: a runner, or one of these errors
FactoryOutcomes(name) ==
    {[runner |-> name \o " runner", err |-> NoError]} \cup
    {[runner |-> "", err |-> e] :
        e \in {ErrUnknown,
               LoaderError(name, ErrUnknown),
               sderrWrap(LoaderError(name, ErrUnknown), "failed to load"),
               <<name \o ": invalid config">>,
               LoaderError(name, <<name \o ": invalid config">>)}}

NoLoad == [primary |-> NoOutcome, fallback |-> NoOutcome,
           createDone |-> FALSE, createResult |-> NoOutcome,
           checkDone |-> FALSE, checkResult |-> NoError]

\* composeFactory.CheckConfig
composeCheckConfig(primary, fallback) ==
    IF primary.err = NoError THEN NoError
    ELSE fallback.err

\* composeFactory.Create
composeCreate(primary, fallback) ==
    LET err1 == primary.err
        err2 == fallback.err
    IN IF err1 = NoError THEN [runner |-> primary.runner, err |-> NoError]
       ELSE IF err2 = NoError THEN [runner |-> fallback.runner, err |-> NoError]
       ELSE IF sderrIs(err1, ErrUnknown) THEN [runner |-> "", err |-> err2]
       ELSE [runner |-> "", err |-> err1]

(* ------------------------------------------------------------------ *)
(* Registry: a tree of registries, each with a map name -> Plugin and  *)
(* its sub-registries in insertion order.  The tree is the one built   *)
(* by NewRegistry(NewRegistry(NewRegistry()), NewRegistry()); every    *)
(* registry of it holds any subset of the plugin names.                *)
(* ------------------------------------------------------------------ *)
PluginNames == {"a", "b"}
LookupNames == PluginNames \cup {"c"}
RegNodes == {"root", "sub1", "sub1.1", "sub2"}
regSubs(node) ==
    IF node = "root" THEN <<"sub1", "sub2">>
    ELSE IF node = "sub1" THEN <<"sub1.1">>
    ELSE <<>>
\* a Plugin descriptor; Manager tells plugins of one name apart
Plugin(name, node) == [Name |-> name, Manager |-> node]
NoPlugin == [Name |-> "", Manager |-> ""]

RECURSIVE registryFind(_, _, _)
RECURSIVE findSubs(_, _, _, _)
\* for _, sub := range r.subs { if p, ok := sub.find(name); ok { return p, ok } }
findSubs(plugins, subs, i, name) ==
    IF i > Len(subs) THEN [plugin |-> NoPlugin, ok |-> FALSE]
    ELSE LET f == registryFind(plugins, subs[i], name)
         IN IF f.ok THEN f ELSE findSubs(plugins, subs, i + 1, name)

\* find that searches the sub-registries before the registry's own plugins
registryFind_subsfirst(plugins, node, name) ==
    LET f == findSubs(plugins, regSubs(node), 1, name)
    IN IF f.ok THEN f
       ELSE IF name \in plugins[node] THEN [plugin |-> Plugin(name, node), ok |-> TRUE]
       ELSE f

\* Registry.find
registryFind(plugins, node, name) ==
    IF name \in plugins[node] THEN [plugin |-> Plugin(name, node), ok |-> TRUE]
    ELSE findSubs(plugins, regSubs(node), 1, name)

\* Registry.Find
RegistryFind(plugins, node, name) ==
    LET f == registryFind(plugins, node, name)
    IN IF ~f.ok THEN [plugin |-> f.plugin, err |-> LoaderError(name, ErrUnknown)]
       ELSE [plugin |-> f.plugin, err |-> NoError]

\* the orders in which a range over a Go map can yield the entries of S
MapOrders(S) ==
    {q \in [1..Cardinality(S) -> S] : \A i, j \in 1..Cardinality(S) : i # j => q[i] # q[j]}

\* the callback of Each: it records the plugin and returns false on its
\* stopAt-th call (never, if stopAt = 0)
callFn(st, p, stopAt) ==
    LET v == Append(st.visited, p)
    IN [visited |-> v, cont |-> Len(v) # stopAt]

\* for _, p := range r.plugins { if !fn(p) { return false } }
RECURSIVE eachPlugins(_, _, _, _, _)
eachPlugins(node, seq, i, st, stopAt) ==
    IF i > Len(seq) THEN st
    ELSE LET st1 == callFn(st, Plugin(seq[i], node), stopAt)
         IN IF ~st1.cont THEN st1 ELSE eachPlugins(node, seq, i + 1, st1, stopAt)

RECURSIVE registryEach(_, _, _, _)
RECURSIVE eachSubs(_, _, _, _, _)
\* for _, sub := range r.subs { if !sub.each(fn) { return false } }
eachSubs(order, subs, i, st, stopAt) ==
    IF i > Len(subs) THEN st
    ELSE LET st1 == registryEach(order, subs[i], st, stopAt)
         IN IF ~st1.cont THEN st1 ELSE eachSubs(order, subs, i + 1, st1, stopAt)

\* each that goes on into the sub-registries after the callback returned false
registryEach_nostop(order, node, st, stopAt) ==
    LET st1 == eachPlugins(node, order[node], 1, st, stopAt)
    IN eachSubs(order, regSubs(node), 1, st1, stopAt)

\* Registry.each; order[node] is the order the range over r.plugins takes
registryEach(order, node, st, stopAt) ==
    LET st1 == eachPlugins(node, order[node], 1, st, stopAt)
    IN IF ~st1.cont THEN st1 ELSE eachSubs(order, regSubs(node), 1, st1, stopAt)

\* Registry.Each
RegistryEach(order, node, stopAt) ==
    registryEach(order, node, [visited |-> <<>>, cont |-> TRUE], stopAt).visited

NoRegistry ==
    [plugins |-> [n \in RegNodes |-> {}], call |-> "none", name |-> "",
     plugin |-> NoPlugin, err |-> NoError, visited |-> <<>>, stopAt |-> 0]

(* ------------------------------------------------------------------ *)
(* eventConsumer (package pipeline).  Consumers and output groups are  *)
(* numbered, 0 is nil; an output group's work queue goes by the        *)
(* group's number; batches are numbered in the order the queue hands   *)
(* them out.                                                           *)
(* ------------------------------------------------------------------ *)
sigConsumerCheck == "sigConsumerCheck"
sigConsumerUpdateOutput == "sigConsumerUpdateOutput"
sigConsumerUpdateInput == "sigConsumerUpdateInput"
consumerSignal(tag, consumer, out) == [tag |-> tag, consumer |-> consumer, out |-> out]
\* make(chan consumerSignal, 3)
SigCap == 3

\* newEventConsumer: the fields of the eventConsumer, the locals of its loop,
\* the calls in progress in the controller and the retryer goroutine, and what
\* the queue handed out and the work queues received
newEventConsumer ==
    [pause |-> TRUE, wait |-> FALSE, sig |-> <<>>, consumer |-> 1, out |-> 0,
     done |-> FALSE, closed |-> {},
     loop |-> [pc |-> "top", consumer |-> 1, out |-> 0, batch |-> 0, paused |-> TRUE],
     ccall |-> "", cpc |-> "", grp |-> 0, rcall |-> "",
     updates |-> 0, signals |-> 0, fetched |-> 0, sent |-> <<>>, sentSince |-> 0,
     gotSince |-> 0]

\* paused that looks at the pause flag only
paused_pauseonly(pause, wait) == pause

\* eventConsumer.paused: c.pause.Load() || c.wait.Load()
paused(pause, wait) == pause \/ wait

\* the loop's test before consumer.Get without the test for a held batch
loopGuard_nobatchtest(c) ==
    ~c.loop.paused /\ c.out # 0 /\ c.loop.consumer # 0

\* !paused && c.out != nil && consumer != nil && batch == nil
loopGuard(c) ==
    ~c.loop.paused /\ c.out # 0 /\ c.loop.consumer # 0 /\ c.loop.batch = 0

\* the error branch of Get that keeps the failed consumer
getError_keepconsumer(c) == [c EXCEPT !.loop.out = 0, !.loop.pc = "top"]

\* if err != nil { out = nil; consumer = nil; continue }
getError(c) == [c EXCEPT !.loop.out = 0, !.loop.consumer = 0, !.loop.pc = "top"]

\* handleSignal, the switch on sig.tag
handleSwitch(c, s) ==
    IF s.tag = sigConsumerUpdateOutput THEN [c EXCEPT !.out = s.out]
    ELSE IF s.tag = sigConsumerUpdateInput THEN [c EXCEPT !.loop.consumer = s.consumer]
    ELSE c

\* handleSignal after paused = c.paused(): out is the work queue of c.out or nil
handleOut(c) ==
    [c EXCEPT !.loop.out = IF ~c.loop.paused /\ c.out # 0 /\ c.loop.batch # 0
                           THEN c.out ELSE 0,
              !.loop.pc = "top"]

\* the loop after paused = c.paused() that follows Get
getOut(c) ==
    [c EXCEPT !.loop.out = IF c.loop.paused \/ c.loop.batch = 0 THEN 0 ELSE @,
              !.loop.pc = "poll"]

\* paused = c.paused() took the value p; the code after it runs
afterPaused(c, p) ==
    LET c1 == [c EXCEPT !.loop.paused = p]
    IN IF c.loop.pc \in {"loadG", "waitG"} THEN getOut(c1) ELSE handleOut(c1)

\* a flag was stored: one more signalling call, and the sends and fetches since
\* the last store start at zero
flagStored(c) == [c EXCEPT !.signals = @ + 1, !.sentSince = 0, !.gotSince = 0]

\* no call has been made on the store directly
NoCall ==
    [op |-> "none", key |-> <<>>, create |-> FALSE, result |-> <<>>, err |-> "",
     held |-> [k \in Keys |-> 0], calls |-> 0, value |-> NoValue, ok |-> TRUE]

\* nothing started; the registry and the table are set by the caller
InitRun ==
    /\ pc = [w \in Workers |-> "idle"]
    /\ werr = [w \in Workers |-> NilErr]
    /\ panicked = [w \in Workers |-> ""]
    /\ runState = [r \in Runs |-> "idle"]
    /\ cancelled = [r \in Runs |-> FALSE]
    /\ grpErrs = [r \in Runs |-> {}]
    /\ runResult = [r \in Runs |-> NoResult]
    /\ clientOpen = [w \in Workers |-> FALSE]
    /\ outstanding = [w \in Workers |-> <<>>]
    /\ published = 0
    /\ crashes = 0
    /\ now = 1
    /\ lastAck = NoAck
    /\ acked = [k \in Keys |-> {}]
    /\ lastAcked = [k \in Keys |-> 0]
    /\ lastDurable = [k \in Keys |-> 0]
    /\ started = [w \in Workers |-> 0]
    /\ handle = openStore

InitCore ==
    /\ InitRun
    /\ persisted = [k \in Keys |-> NoRecord]
    /\ table = readStates(persisted, managerType)

Init ==
    InitCore /\ ld = NoLoad /\ rg = NoRegistry /\ sc = NoCall /\ ec = newEventConsumer

(* ------------------------------------------------------------------ *)
(* managedInput.Run                                                    *)
(* ------------------------------------------------------------------ *)
\* Run derives the child cancellation and starts one goroutine per source
StartRun(r) ==
    /\ runState[r] = "idle"
    /\ handle.session
    /\ runState' = [runState EXCEPT ![r] = "running"]
    /\ pc' = [w \in Workers |-> IF RunOf(w) = r THEN "start" ELSE pc[w]]
    /\ started' = [w \in Workers |-> IF RunOf(w) = r THEN now ELSE started[w]]
    /\ UNCHANGED <<werr, panicked, clientOpen, cancelled, grpErrs, runResult, outstanding,
                   storeVars, published, crashes, now, lastAck, acked, lastAcked,
                   lastDurable, handle, sideVars>>

\* the caller's cancellation source fires; the child cancellation follows
Cancel(r) ==
    /\ runState[r] = "running"
    /\ ~cancelled[r]
    /\ cancelled' = [cancelled EXCEPT ![r] = TRUE]
    /\ UNCHANGED <<workerVars, runState, grpErrs, runResult, outstanding, storeVars,
                   published, crashes, now, histVars, handle, sideVars>>

\* cancel() is called for a recovered panic only
cancelOnError_panic(err) == err.kind = "panic"

\* if err = runSource(...); err != nil { cancel() }
cancelOnError(err) == err # NilErr

\* MultiErrGroup keeps the non-nil errors of its goroutines
groupCollects(err) == err # NilErr

\* the goroutine of grp.Go after runSource has returned
WorkerDone(w) ==
    /\ pc[w] = "returned"
    /\ pc' = [pc EXCEPT ![w] = "done"]
    /\ cancelled' = [cancelled EXCEPT ![RunOf(w)] = @ \/ cancelOnError(werr[w])]
    /\ grpErrs' = [grpErrs EXCEPT ![RunOf(w)] =
                      IF groupCollects(werr[w]) THEN @ \cup {<<w, werr[w]>>} ELSE @]
    /\ UNCHANGED <<werr, panicked, clientOpen, runState, runResult, outstanding, storeVars,
                   published, crashes, now, histVars, handle, sideVars>>

\* grp.Wait() returns once every goroutine has returned
waitReturns(r) == \A w \in WorkersOf(r) : pc[w] = "done"

\* if errs := grp.Wait(); len(errs) > 0 { return sderr.WrapAll(errs, ...) }; return nil
runReturnValue(errs) ==
    IF Cardinality(errs) > 0 THEN [isNil |-> FALSE, errs |-> errs]
    ELSE [isNil |-> TRUE, errs |-> {}]

\* Run returns after grp.Wait(); its deferred cancel() runs
RunReturn(r) ==
    /\ runState[r] = "running"
    /\ waitReturns(r)
    /\ runState' = [runState EXCEPT ![r] = "returned"]
    /\ runResult' = [runResult EXCEPT ![r] = runReturnValue(grpErrs[r])]
    /\ cancelled' = [cancelled EXCEPT ![r] = TRUE]
    /\ UNCHANGED <<workerVars, grpErrs, outstanding, storeVars, published, crashes, now,
                   histVars, handle, sideVars>>

(* ------------------------------------------------------------------ *)
(* managedInput.runSource                                              *)
(* ------------------------------------------------------------------ *)
\* a runSource that records the ConnectWith error and goes on to lock the resource
Connect_goon(w, ok) ==
    /\ pc[w] = "start"
    /\ clientOpen' = [clientOpen EXCEPT ![w] = ok]
    /\ pc' = [pc EXCEPT ![w] = "connected"]
    /\ werr' = [werr EXCEPT ![w] = IF ok THEN @ ELSE ConnectErr]
    /\ UNCHANGED <<panicked, runVars, outstanding, storeVars, published, crashes, now,
                   histVars, handle, sideVars>>

\* pipeline.ConnectWith; on error runSource returns it
Connect(w, ok) ==
    /\ pc[w] = "start"
    /\ IF ok
       THEN /\ clientOpen' = [clientOpen EXCEPT ![w] = TRUE]
            /\ pc' = [pc EXCEPT ![w] = "connected"]
            /\ werr' = werr
       ELSE /\ clientOpen' = clientOpen
            /\ pc' = [pc EXCEPT ![w] = "returned"]
            /\ werr' = [werr EXCEPT ![w] = ConnectErr]
    /\ UNCHANGED <<panicked, runVars, outstanding, storeVars, published, crashes, now,
                   histVars, handle, sideVars>>

\* a deferred Close that leaves the client connected
clientClose_leak(open) == open

\* defer client.Close(): the state of the worker's client after runSource returned
clientClose(open) == FALSE

\* manager.lock, first half: Find(key, create = true)
LockFind(w) ==
    /\ pc[w] = "connected"
    /\ table' = Find(table, KeyOf(w), TRUE)
    /\ pc' = [pc EXCEPT ![w] = "waiting"]
    /\ UNCHANGED <<werr, panicked, clientOpen, runVars, outstanding, persisted, published,
                   crashes, now, histVars, handle, sideVars>>

\* manager.lock, second half: the lock is free, cancellation has not fired and
\* the worker acquires the lock
LockAcquire(w) ==
    /\ pc[w] = "waiting"
    /\ ~cancelled[RunOf(w)]
    /\ ~table[KeyOf(w)].locked
    /\ table' = [table EXCEPT ![KeyOf(w)].locked = TRUE]
    /\ pc' = [pc EXCEPT ![w] = "locked"]
    /\ UNCHANGED <<werr, panicked, clientOpen, runVars, outstanding, persisted, published,
                   crashes, now, histVars, handle, sideVars>>

\* manager.lock, second half: cancellation fires first; the resource is
\* released, runSource returns the error and its deferred client.Close() runs
LockCanceled(w) ==
    /\ pc[w] = "waiting"
    /\ cancelled[RunOf(w)]
    /\ table' = [table EXCEPT ![KeyOf(w)] = Release(@)]
    /\ werr' = [werr EXCEPT ![w] = CanceledErr]
    /\ clientOpen' = [clientOpen EXCEPT ![w] = clientClose(@)]
    /\ pc' = [pc EXCEPT ![w] = "returned"]
    /\ UNCHANGED <<panicked, runVars, outstanding, persisted, published, crashes, now,
                   histVars, handle, sideVars>>

\* store.UpdateTTL(resource, inp.cleanTimeout)
UpdateTTL(w, ok) ==
    /\ pc[w] = "locked"
    /\ LET k == KeyOf(w)
           r == storeUpdateTTL(table[k], persisted[k], cleanTimeout(RunOf(w)), ok, now)
       IN /\ table' = [table EXCEPT ![k] = r.res]
          /\ persisted' = [persisted EXCEPT ![k] = r.rec]
    /\ handle' = storeUse(handle)
    /\ pc' = [pc EXCEPT ![w] = "running"]
    /\ UNCHANGED <<werr, panicked, clientOpen, runVars, outstanding, published, crashes,
                   now, histVars, sideVars>>

\* the cursor value an Input publishes with its next event: every event
\* carries a value of its own
NextCursor == published + 1

\* a publisher built without the worker's cancellation: its signal never fires
publisherCanceler_none(w) == FALSE

\* &cursorPublisher{canceler: ctx.Cancelation, ...}: the publisher watches the
\* child cancellation that Run stored in the worker's context
publisherCanceler(w) == cancelled[RunOf(w)]

\* cursorPublisher.Publish(event, update) called by Input.Run: dropped after
\* cancellation; otherwise the in-memory cursor moves ahead and the event
\* goes to the pipeline with a new update operation, which retains the
\* resource and the store
Publish(w) ==
    /\ pc[w] = "running"
    /\ published < MaxEvents
    /\ published' = published + 1
    /\ IF publisherCanceler(w)
       THEN UNCHANGED <<table, outstanding, handle>>
       ELSE /\ table' = [table EXCEPT ![KeyOf(w)] =
                            Retain(resourceUpdateCursor(@, NextCursor))]
            /\ outstanding' = [outstanding EXCEPT ![w] =
                                  Append(@, UpdateOp(NextCursor, now))]
            /\ handle' = storeRetain(handle)
    /\ UNCHANGED <<workerVars, runVars, persisted, crashes, now, histVars, sideVars>>

\* Publish within the event budget of the supervisor specification
RunPublish(w) == published < RunEvents /\ Publish(w)

\* an event reaches the worker's client without an update operation as its
\* private data
PublishPlain(w, entry) ==
    /\ pc[w] = "running"
    /\ published < MaxEvents
    /\ ~cancelled[RunOf(w)]
    /\ published' = published + 1
    /\ outstanding' = [outstanding EXCEPT ![w] = Append(@, entry)]
    /\ UNCHANGED <<workerVars, runVars, storeVars, crashes, now, histVars, handle, sideVars>>

\* the recovered panic is logged but the returned error is left nil
recovered_swallow(v) == NilErr

\* the deferred recover(): a panic value becomes the returned error
recovered(v) == PanicErr(v)

\* Input.Run returns err or panics with value v (v = "" is no panic); the
\* deferred releaseResource, client.Close and recover run
InputRunReturns(w, err, v) ==
    /\ pc[w] = "running"
    /\ err.kind = "canceled" => cancelled[RunOf(w)]
    /\ table' = [table EXCEPT ![KeyOf(w)] = Unlock(@)]
    /\ clientOpen' = [clientOpen EXCEPT ![w] = clientClose(@)]
    /\ panicked' = [panicked EXCEPT ![w] = v]
    /\ werr' = [werr EXCEPT ![w] = IF v # "" THEN recovered(v) ELSE err]
    /\ pc' = [pc EXCEPT ![w] = "returned"]
    /\ UNCHANGED <<runVars, outstanding, persisted, published, crashes, now, histVars, handle, sideVars>>

(* ------------------------------------------------------------------ *)
(* ACK handling                                                        *)
(* ------------------------------------------------------------------ *)
OpIndices(private) == {i \in 1..Len(private) : private[i].kind = "op"}
LastOp(private) == private[CHOOSE i \in OpIndices(private) : \A j \in OpIndices(private) : j <= i]

\* the pipeline acknowledges the first len outstanding events of the worker's
\* client and calls the handler of newInputACKHandler with their private data
HandleACK(w, len, ok) ==
    /\ len \in 1..Len(outstanding[w])
    /\ LET private == SubSeq(outstanding[w], 1, len)
           k == KeyOf(w)
           scan == ackScan(private, 1, 0, 0)
           op == private[scan.last]
           r == Execute(op, scan.n, table[k], persisted[k], ok)
       IN /\ outstanding' = [outstanding EXCEPT ![w] = SubSeq(@, len + 1, Len(@))]
          /\ IF scan.n = 0
             THEN /\ UNCHANGED <<storeVars, handle>>
                  /\ lastAck' = [w |-> w, private |-> private, n |-> 0, calls |-> <<>>,
                                 inSync |-> TRUE, ok |-> TRUE]
             ELSE /\ table' = [table EXCEPT ![k] = r.res]
                  /\ persisted' = [persisted EXCEPT ![k] = r.rec]
                  /\ handle' = ExecuteStore(handle, scan.n)
                  /\ lastAck' = [w |-> w, private |-> private, n |-> scan.n,
                                 calls |-> <<[key |-> k, cursor |-> op.cursor]>>,
                                 inSync |-> table[k].internalInSync, ok |-> ok]
          /\ acked' = [acked EXCEPT ![k] = @ \cup {private[i].cursor : i \in OpIndices(private)}]
          /\ IF OpIndices(private) # {}
             THEN /\ lastAcked' = [lastAcked EXCEPT ![k] = LastOp(private).cursor]
                  /\ lastDurable' = [lastDurable EXCEPT ![k] =
                                        IF ok THEN LastOp(private).cursor ELSE @]
             ELSE UNCHANGED <<lastAcked, lastDurable>>
    /\ UNCHANGED <<workerVars, runVars, published, crashes, now, started, sideVars>>

(* ------------------------------------------------------------------ *)
(* Environment                                                         *)
(* ------------------------------------------------------------------ *)
\* the process dies and is started again: openStore reloads the table from
\* the registry; goroutines, clients and unacknowledged events are gone
Crash ==
    /\ crashes < MaxCrashes
    /\ crashes' = crashes + 1
    /\ pc' = [w \in Workers |-> "idle"]
    /\ werr' = [w \in Workers |-> NilErr]
    /\ panicked' = [w \in Workers |-> ""]
    /\ runState' = [r \in Runs |-> "idle"]
    /\ cancelled' = [r \in Runs |-> FALSE]
    /\ grpErrs' = [r \in Runs |-> {}]
    /\ runResult' = [r \in Runs |-> NoResult]
    /\ clientOpen' = [w \in Workers |-> FALSE]
    /\ outstanding' = [w \in Workers |-> <<>>]
    /\ table' = readStates(persisted, managerType)
    /\ handle' = openStore
    /\ UNCHANGED <<persisted, published, now, histVars, sideVars>>

\* Supervisor and workers of both Run calls.  The registry write of an ACK
\* succeeds here; its failure is part of the store specification below.
Next ==
    \/ \E r \in Runs : StartRun(r)
    \/ \E r \in Runs : Cancel(r)
    \/ \E w \in Workers : WorkerDone(w)
    \/ \E r \in Runs : RunReturn(r)
    \/ \E w \in Workers, ok \in BOOLEAN : Connect(w, ok)
    \/ \E w \in Workers : LockFind(w)
    \/ \E w \in Workers : LockAcquire(w)
    \/ \E w \in Workers : LockCanceled(w)
    \/ \E w \in Workers, ok \in BOOLEAN : UpdateTTL(w, ok)
    \/ \E w \in Workers : RunPublish(w)
    \/ \E w \in Workers, err \in {NilErr, FatalErr, CanceledErr} : InputRunReturns(w, err, "")
    \/ \E w \in Workers, v \in PanicValues : InputRunReturns(w, NilErr, v)
    \/ \E w \in Workers, len \in 1..RunEvents : HandleACK(w, len, TRUE)

Spec == Init /\ [][Next]_vars

\* One Run call, its events and their acknowledgement, crash and restart
StoreRuns == {"r2"}
StoreWorkers == {w \in Workers : RunOf(w) \in StoreRuns}
NextStore ==
    \/ \E r \in StoreRuns : StartRun(r)
    \/ \E r \in StoreRuns : Cancel(r)
    \/ \E w \in StoreWorkers : WorkerDone(w)
    \/ \E r \in StoreRuns : RunReturn(r)
    \/ \E w \in StoreWorkers : Connect(w, TRUE)
    \/ \E w \in StoreWorkers : LockFind(w)
    \/ \E w \in StoreWorkers : LockAcquire(w)
    \/ \E w \in StoreWorkers : LockCanceled(w)
    \/ \E w \in StoreWorkers, ok \in BOOLEAN : UpdateTTL(w, ok)
    \/ \E w \in StoreWorkers : Publish(w)
    \/ \E w \in StoreWorkers, e \in {NilEntry, ForeignEntry} : PublishPlain(w, e)
    \/ \E w \in StoreWorkers, err \in {NilErr, FatalErr} : InputRunReturns(w, err, "")
    \/ \E w \in StoreWorkers, len \in 1..MaxEvents, ok \in BOOLEAN : HandleACK(w, len, ok)
    \/ Crash

SpecStore == Init /\ [][NextStore]_vars

\* a resource cleaner is started for the store and retains it
CleanerStart ==
    /\ handle.session
    /\ handle.cleaner = "off"
    /\ handle' = [storeRetain(handle) EXCEPT !.cleaner = "on"]
    /\ UNCHANGED <<workerVars, runVars, outstanding, storeVars, published, crashes, now,
                   histVars, sideVars>>

\* the cleaner stops and releases the store
CleanerStop ==
    /\ handle.cleaner = "on"
    /\ handle' = [storeRelease(handle) EXCEPT !.cleaner = "stopped"]
    /\ UNCHANGED <<workerVars, runVars, outstanding, storeVars, published, crashes, now,
                   histVars, sideVars>>

\* the session ends after its Run calls have returned: the supervisor
\* releases the reference the store was opened with
Shutdown ==
    /\ handle.session
    /\ \A r \in Runs : runState[r] # "running"
    /\ handle' = [storeRelease(handle) EXCEPT !.session = FALSE]
    /\ UNCHANGED <<workerVars, runVars, outstanding, storeVars, published, crashes, now,
                   histVars, sideVars>>

\* One Run call with its events, the cleaner and the end of the session
NextLife ==
    \/ \E r \in StoreRuns : StartRun(r)
    \/ \E r \in StoreRuns : Cancel(r)
    \/ \E w \in StoreWorkers : WorkerDone(w)
    \/ \E r \in StoreRuns : RunReturn(r)
    \/ \E w \in StoreWorkers : Connect(w, TRUE)
    \/ \E w \in StoreWorkers : LockFind(w)
    \/ \E w \in StoreWorkers : LockAcquire(w)
    \/ \E w \in StoreWorkers : LockCanceled(w)
    \/ \E w \in StoreWorkers, ok \in BOOLEAN : UpdateTTL(w, ok)
    \/ \E w \in StoreWorkers : Publish(w)
    \/ \E w \in StoreWorkers, err \in {NilErr, FatalErr} : InputRunReturns(w, err, "")
    \/ \E w \in StoreWorkers, len \in 1..MaxEvents, ok \in BOOLEAN : HandleACK(w, len, ok)
    \/ CleanerStart
    \/ CleanerStop
    \/ Shutdown
    \/ Crash

SpecLife == Init /\ [][NextLife]_vars

\* Locking only: both Run calls and their workers up to the return of
\* Input.Run, no events.  A worker that waits for a free lock gets it: the
\* goroutine blocked in lock is scheduled once the lock can be taken.
NextLock ==
    \/ \E r \in Runs : StartRun(r)
    \/ \E r \in Runs : Cancel(r)
    \/ \E w \in Workers : WorkerDone(w)
    \/ \E r \in Runs : RunReturn(r)
    \/ \E w \in Workers, ok \in BOOLEAN : Connect(w, ok)
    \/ \E w \in Workers : LockFind(w)
    \/ \E w \in Workers : LockAcquire(w)
    \/ \E w \in Workers : LockCanceled(w)
    \/ \E w \in Workers : UpdateTTL(w, TRUE)
    \/ \E w \in Workers, err \in {NilErr, FatalErr, CanceledErr} : InputRunReturns(w, err, "")
    \/ \E w \in Workers, v \in PanicValues : InputRunReturns(w, NilErr, v)

FairLock == \A w \in Workers : WF_vars(LockAcquire(w))

SpecLock == Init /\ [][NextLock]_vars /\ FairLock

\* time passes
Tick ==
    /\ now < MaxTime
    /\ now' = now + 1
    /\ UNCHANGED <<workerVars, runVars, outstanding, storeVars, published, crashes,
                   histVars, handle, sideVars>>

\* The store specification under a wall clock that advances
NextClock == NextStore \/ Tick

SpecClock == Init /\ [][NextClock]_vars

(* ------------------------------------------------------------------ *)
(* Callers of states.Find next to a worker: each call runs under the   *)
(* table's mutex, so calls of different goroutines interleave as whole *)
(* calls.  A caller that got a resource gives its retain back later.   *)
(* ------------------------------------------------------------------ *)
MaxFinds == 3

StatesFind(key, create) ==
    /\ sc.calls < MaxFinds
    /\ table' = Find(table, key, create)
    /\ sc' = [sc EXCEPT !.op = "find", !.key = key, !.create = create,
                        !.result = FindResult(table, key, create),
                        !.held[key] = IF FindResult(table, key, create) = <<>>
                                      THEN @ ELSE @ + 1,
                        !.calls = @ + 1]
    /\ UNCHANGED <<workerVars, runVars, outstanding, persisted, published, crashes, now,
                   histVars, handle, ld, rg, ec>>

\* resource.Release by a caller of Find
StatesRelease(key) ==
    /\ sc.held[key] > 0
    /\ table' = [table EXCEPT ![key] = Release(@)]
    /\ sc' = [sc EXCEPT !.op = "release", !.key = key, !.held[key] = @ - 1]
    /\ UNCHANGED <<workerVars, runVars, outstanding, persisted, published, crashes, now,
                   histVars, handle, ld, rg, ec>>

NextFind ==
    \/ \E r \in StoreRuns : StartRun(r)
    \/ \E w \in StoreWorkers : WorkerDone(w)
    \/ \E r \in StoreRuns : RunReturn(r)
    \/ \E w \in StoreWorkers : Connect(w, TRUE)
    \/ \E w \in StoreWorkers : LockFind(w)
    \/ \E w \in StoreWorkers : LockAcquire(w)
    \/ \E w \in StoreWorkers : UpdateTTL(w, TRUE)
    \/ \E w \in StoreWorkers : InputRunReturns(w, NilErr, "")
    \/ \E k \in Keys, create \in BOOLEAN : StatesFind(k, create)
    \/ \E k \in Keys : StatesRelease(k)

SpecFind == Init /\ [][NextFind]_vars

(* ------------------------------------------------------------------ *)
(* The registry as found on disk: records of this input type and of    *)
(* another one, some of them not decodable; one worker that may        *)
(* migrate its state; restarts.                                        *)
(* ------------------------------------------------------------------ *)
MaxMigrates == 1
ForeignKeys == {<<"journald", "a">>}
AllKeys == Keys \cup ForeignKeys
BadRecord == [present |-> TRUE, ttl |-> 0 - 1, updated |-> 1, cursor |-> 4]
DiskRecords ==
    {NoRecord, BadRecord,
     [present |-> TRUE, ttl |-> 1, updated |-> 1, cursor |-> 0],
     [present |-> TRUE, ttl |-> 2, updated |-> 2, cursor |-> 5]}

InitDisk ==
    /\ InitRun
    /\ persisted \in [AllKeys -> DiskRecords]
    /\ table = readStates(persisted, managerType)
    /\ ld = NoLoad /\ rg = NoRegistry /\ sc = NoCall /\ ec = newEventConsumer

\* the Input migrates the state of its source while it runs
Migrate(w, value, ok) ==
    /\ pc[w] = "running"
    /\ sc.calls < MaxMigrates
    /\ LET k == KeyOf(w)
           r == storeMigrate(table[k], persisted[k], value, ok)
       IN /\ table' = [table EXCEPT ![k] = r.res]
          /\ persisted' = [persisted EXCEPT ![k] = r.rec]
          /\ sc' = [sc EXCEPT !.op = "migrate", !.key = k, !.err = r.err,
                              !.value = value, !.ok = ok, !.calls = @ + 1]
    /\ handle' = IF typeconvConvert(value).ok THEN storeUse(handle) ELSE handle
    /\ UNCHANGED <<workerVars, runVars, outstanding, published, crashes, now, histVars,
                   ld, rg, ec>>

NextDisk ==
    \/ \E r \in StoreRuns : StartRun(r)
    \/ \E w \in StoreWorkers : WorkerDone(w)
    \/ \E r \in StoreRuns : RunReturn(r)
    \/ \E w \in StoreWorkers : Connect(w, TRUE)
    \/ \E w \in StoreWorkers : LockFind(w)
    \/ \E w \in StoreWorkers : LockAcquire(w)
    \/ \E w \in StoreWorkers, ok \in BOOLEAN : UpdateTTL(w, ok)
    \/ \E w \in StoreWorkers, v \in MigrateValues, ok \in BOOLEAN : Migrate(w, v, ok)
    \/ \E w \in StoreWorkers : InputRunReturns(w, NilErr, "")
    \/ Crash

SpecDisk == InitDisk /\ [][NextDisk]_vars

(* ------------------------------------------------------------------ *)
(* eventConsumer: the loop goroutine, the controller goroutine         *)
(* (sigPause, sigContinue, updOutput, close) and the retryer goroutine *)
(* (sigWait, sigUnWait).  The queue hands out MaxBatches batches;      *)
(* updOutput is called MaxUpdates times, the four signalling calls     *)
(* MaxSignals times in all.                                            *)
(* ------------------------------------------------------------------ *)
MaxBatches == 2
MaxUpdates == 2
MaxSignals == 3

\* the top of the for loop up to the call of consumer.Get
LoopTop ==
    /\ ec.loop.pc = "top"
    /\ ec' = IF loopGuard(ec)
             THEN [ec EXCEPT !.loop.out = ec.out, !.loop.pc = "get"]
             ELSE [ec EXCEPT !.loop.pc = "poll"]
    /\ UNCHANGED <<coreVars, ld, rg, sc>>

\* consumer.Get returns an error: the consumer has been closed
LoopGetError ==
    /\ ec.loop.pc = "get"
    /\ ec.loop.consumer \in ec.closed
    /\ ec' = getError(ec)
    /\ UNCHANGED <<coreVars, ld, rg, sc>>

\* consumer.Get returns the next batch of the queue
LoopGetBatch ==
    /\ ec.loop.pc = "get"
    /\ ec.loop.consumer \notin ec.closed
    /\ ec.fetched < MaxBatches
    /\ ec' = [ec EXCEPT !.loop.batch = ec.fetched + 1, !.fetched = @ + 1,
                        !.gotSince = IF @ < 2 THEN @ + 1 ELSE @,
                        !.loop.pc = "loadG"]
    /\ UNCHANGED <<coreVars, ld, rg, sc>>

\* c.paused(), first half: c.pause.Load(); a set flag decides the result
LoopLoadPause ==
    /\ ec.loop.pc \in {"loadG", "loadH"}
    /\ ec' = IF ec.pause THEN afterPaused(ec, paused(TRUE, FALSE))
             ELSE [ec EXCEPT !.loop.pc = IF @ = "loadG" THEN "waitG" ELSE "waitH"]
    /\ UNCHANGED <<coreVars, ld, rg, sc>>

\* c.paused(), second half: c.wait.Load()
LoopLoadWait ==
    /\ ec.loop.pc \in {"waitG", "waitH"}
    /\ ec' = afterPaused(ec, paused(FALSE, ec.wait))
    /\ UNCHANGED <<coreVars, ld, rg, sc>>

\* the first select: a signal if there is one, else default
LoopPoll ==
    /\ ec.loop.pc = "poll"
    /\ ec' = IF ec.sig # <<>>
             THEN [handleSwitch(ec, Head(ec.sig)) EXCEPT !.sig = Tail(@),
                                                         !.loop.pc = "loadH"]
             ELSE [ec EXCEPT !.loop.pc = "select"]
    /\ UNCHANGED <<coreVars, ld, rg, sc>>

\* the second select, case <-c.done
LoopSelectDone ==
    /\ ec.loop.pc = "select"
    /\ ec.done
    /\ ec' = [ec EXCEPT !.loop.pc = "stopped"]
    /\ UNCHANGED <<coreVars, ld, rg, sc>>

\* the second select, case sig := <-c.sig
LoopSelectSig ==
    /\ ec.loop.pc = "select"
    /\ ec.sig # <<>>
    /\ ec' = [handleSwitch(ec, Head(ec.sig)) EXCEPT !.sig = Tail(@), !.loop.pc = "loadH"]
    /\ UNCHANGED <<coreVars, ld, rg, sc>>

\* the second select, case out <- batch: the work queue takes the batch
LoopSelectSend ==
    /\ ec.loop.pc = "select"
    /\ ec.loop.out # 0
    /\ ec' = [ec EXCEPT !.sent = Append(@, [batch |-> ec.loop.batch,
                                            queue |-> ec.loop.out]),
                        !.sentSince = IF @ < 2 THEN @ + 1 ELSE @,
                        !.loop.batch = 0, !.loop.pc = "top"]
    /\ UNCHANGED <<coreVars, ld, rg, sc>>

\* sigPause, c.pause.Store(true)
sigPause ==
    /\ ec.ccall = "" /\ ~ec.done
    /\ ec.signals < MaxSignals
    /\ ec' = flagStored([ec EXCEPT !.pause = TRUE, !.ccall = "sigPause", !.cpc = "hint"])
    /\ UNCHANGED <<coreVars, ld, rg, sc>>

\* sigContinue, c.pause.Store(false)
sigContinue ==
    /\ ec.ccall = "" /\ ~ec.done
    /\ ec.signals < MaxSignals
    /\ ec' = flagStored([ec EXCEPT !.pause = FALSE, !.ccall = "sigContinue",
                                   !.cpc = "hint"])
    /\ UNCHANGED <<coreVars, ld, rg, sc>>

\* sigWait, c.wait.Store(true)
sigWait ==
    /\ ec.rcall = "" /\ ~ec.done
    /\ ec.signals < MaxSignals
    /\ ec' = flagStored([ec EXCEPT !.wait = TRUE, !.rcall = "sigWait"])
    /\ UNCHANGED <<coreVars, ld, rg, sc>>

\* sigUnWait, c.wait.Store(false)
sigUnWait ==
    /\ ec.rcall = "" /\ ~ec.done
    /\ ec.signals < MaxSignals
    /\ ec' = flagStored([ec EXCEPT !.wait = FALSE, !.rcall = "sigUnWait"])
    /\ UNCHANGED <<coreVars, ld, rg, sc>>

\* sigHint: the signal is sent if the channel has room and dropped otherwise
sigHint(c) ==
    IF Len(c.sig) < SigCap
    THEN [c EXCEPT !.sig = Append(@, consumerSignal(sigConsumerCheck, 0, 0))]
    ELSE c

\* the sigHint of the controller's call; the call returns
ControllerHint ==
    /\ ec.cpc = "hint"
    /\ ec' = [sigHint(ec) EXCEPT !.ccall = "", !.cpc = ""]
    /\ UNCHANGED <<coreVars, ld, rg, sc>>

\* the sigHint of the retryer's call; the call returns
RetryerHint ==
    /\ ec.rcall # ""
    /\ ec' = [sigHint(ec) EXCEPT !.rcall = ""]
    /\ UNCHANGED <<coreVars, ld, rg, sc>>

\* updOutput(grp), c.consumer.Close()
updOutput(grp) ==
    /\ ec.ccall = "" /\ ~ec.done
    /\ ec.updates < MaxUpdates
    /\ grp = ec.updates + 1
    /\ ec' = [ec EXCEPT !.closed = @ \cup {ec.consumer}, !.updates = @ + 1,
                        !.grp = grp, !.ccall = "updOutput", !.cpc = "output"]
    /\ UNCHANGED <<coreVars, ld, rg, sc>>

\* updOutput, the send of sigConsumerUpdateOutput and c.consumer = c.queue.Consumer()
updOutputSend ==
    /\ ec.cpc = "output"
    /\ Len(ec.sig) < SigCap
    /\ ec' = [ec EXCEPT !.sig = Append(@, consumerSignal(sigConsumerUpdateOutput, 0, ec.grp)),
                        !.consumer = ec.updates + 1, !.cpc = "input"]
    /\ UNCHANGED <<coreVars, ld, rg, sc>>

\* updOutput, the send of sigConsumerUpdateInput; the call returns
updInputSend ==
    /\ ec.cpc = "input"
    /\ Len(ec.sig) < SigCap
    /\ ec' = [ec EXCEPT !.sig = Append(@, consumerSignal(sigConsumerUpdateInput,
                                                         ec.consumer, 0)),
                        !.ccall = "", !.cpc = ""]
    /\ UNCHANGED <<coreVars, ld, rg, sc>>

\* close: c.consumer.Close(); close(c.done)
close ==
    /\ ec.ccall = "" /\ ~ec.done
    /\ ec' = [ec EXCEPT !.closed = @ \cup {ec.consumer}, !.done = TRUE]
    /\ UNCHANGED <<coreVars, ld, rg, sc>>

LoopStep ==
    \/ LoopTop
    \/ LoopGetError
    \/ LoopGetBatch
    \/ LoopLoadPause
    \/ LoopLoadWait
    \/ LoopPoll
    \/ LoopSelectDone
    \/ LoopSelectSig
    \/ LoopSelectSend

NextConsumer ==
    \/ LoopStep
    \/ sigPause
    \/ sigContinue
    \/ ControllerHint
    \/ sigWait
    \/ sigUnWait
    \/ RetryerHint
    \/ \E grp \in 1..MaxUpdates : updOutput(grp)
    \/ updOutputSend
    \/ updInputSend
    \/ close

SpecConsumer == Init /\ [][NextConsumer]_vars

\* The goroutines run: a step of the loop, of a call in progress in the
\* controller or the retryer that stays possible is taken.  This includes the
\* return of a Get that can return and the receive of a work queue.  A send
\* of updOutput that waits for room in c.sig is served by the next receive,
\* ahead of any sigHint that comes later.
FairConsumer ==
    /\ WF_vars(LoopTop)
    /\ WF_vars(LoopGetError)
    /\ WF_vars(LoopGetBatch)
    /\ WF_vars(LoopLoadPause)
    /\ WF_vars(LoopLoadWait)
    /\ WF_vars(LoopPoll)
    /\ WF_vars(LoopSelectDone)
    /\ WF_vars(LoopSelectSig)
    /\ WF_vars(LoopSelectSend)
    /\ WF_vars(ControllerHint)
    /\ SF_vars(updOutputSend)
    /\ SF_vars(updInputSend)

\* The loop and the controller
NextController ==
    \/ LoopStep
    \/ sigPause
    \/ sigContinue
    \/ ControllerHint
    \/ \E grp \in 1..MaxUpdates : updOutput(grp)
    \/ updOutputSend
    \/ updInputSend
    \/ close

SpecConsumerFair == Init /\ [][NextController]_vars /\ FairConsumer

(* ------------------------------------------------------------------ *)
(* Composed loader: one configuration is checked and created           *)
(* ------------------------------------------------------------------ *)
InitLoader ==
    /\ InitCore
    /\ \E p \in FactoryOutcomes("primary"), f \in FactoryOutcomes("fallback") :
          ld = [NoLoad EXCEPT !.primary = p, !.fallback = f]
    /\ rg = NoRegistry
    /\ sc = NoCall
    /\ ec = newEventConsumer

Create ==
    /\ ~ld.createDone
    /\ ld' = [ld EXCEPT !.createDone = TRUE,
                        !.createResult = composeCreate(ld.primary, ld.fallback)]
    /\ UNCHANGED <<coreVars, rg, sc, ec>>

CheckConfig ==
    /\ ~ld.checkDone
    /\ ld' = [ld EXCEPT !.checkDone = TRUE,
                        !.checkResult = composeCheckConfig(ld.primary, ld.fallback)]
    /\ UNCHANGED <<coreVars, rg, sc, ec>>

NextLoader == Create \/ CheckConfig

SpecLoader == InitLoader /\ [][NextLoader]_vars

(* ------------------------------------------------------------------ *)
(* Registry: one Find or one Each on a registry tree                   *)
(* ------------------------------------------------------------------ *)
MaxStop == 3

InitRegistry ==
    /\ InitCore
    /\ ld = NoLoad
    /\ sc = NoCall
    /\ ec = newEventConsumer
    /\ \E pl \in [RegNodes -> SUBSET PluginNames] : rg = [NoRegistry EXCEPT !.plugins = pl]

CallFind(name) ==
    /\ rg.call = "none"
    /\ LET f == RegistryFind(rg.plugins, "root", name)
       IN rg' = [rg EXCEPT !.call = "find", !.name = name, !.plugin = f.plugin,
                           !.err = f.err]
    /\ UNCHANGED <<coreVars, ld, sc, ec>>

CallEach(order, stopAt) ==
    /\ rg.call = "none"
    /\ \A n \in RegNodes : order[n] \in MapOrders(rg.plugins[n])
    /\ rg' = [rg EXCEPT !.call = "each", !.stopAt = stopAt,
                        !.visited = RegistryEach(order, "root", stopAt)]
    /\ UNCHANGED <<coreVars, ld, sc, ec>>

NextRegistry ==
    \/ \E name \in LookupNames : CallFind(name)
    \/ \E order \in [RegNodes -> UNION {MapOrders(S) : S \in SUBSET PluginNames}],
          stopAt \in 0..MaxStop : CallEach(order, stopAt)

SpecRegistry == InitRegistry /\ [][NextRegistry]_vars


(* ------------------------------------------------------------------ *)
(* Properties                                                          *)
(* ------------------------------------------------------------------ *)
RECURSIVE SumOver(_, _)
SumOver(S, f) ==
    IF S = {} THEN 0
    ELSE LET x == CHOOSE y \in S : TRUE IN f[x] + SumOver(S \ {x}, f)

\* workers between a successful lock of k and its release
Holders(k) == {w \in Workers : KeyOf(w) = k /\ pc[w] \in {"locked", "running"}}
\* workers that called Find for k and wait for the lock
Waiters(k) == {w \in Workers : KeyOf(w) = k /\ pc[w] = "waiting"}
\* update operations created for k and not executed or collapsed yet
PendingOps(k) ==
    SumOver({w \in Workers : KeyOf(w) = k},
            [w \in Workers |-> Cardinality(OpIndices(outstanding[w]))])
Owners(k) == Cardinality(Holders(k)) + Cardinality(Waiters(k)) + PendingOps(k)

\* C1: for every resource key at most one worker is between a successful lock
\* of the key and its release, so at most one worker executes Input.Run for it.
C1_ExclusiveOwnership ==
    \A k \in Keys :
        /\ Cardinality(Holders(k)) <= 1
        /\ Holders(k) # {} => table[k].locked
\* a worker of the second Run waits for the key the first Run's worker holds
C1_Witness ==
    /\ pc["w1"] = "running"
    /\ pc["w3"] = "waiting"
    /\ table[KeyOf("w1")].locked

\* C2: an ACK batch with N >= 1 update operations makes exactly one
\* UpdateCursor call, with the cursor of the positionally last update
\* operation and the count N; nil and foreign entries are ignored and a batch
\* without update operations makes no store call.
C2_AckCollapse ==
    LET N == Cardinality(OpIndices(lastAck.private))
    IN /\ lastAck.n = N
       /\ N = 0 => lastAck.calls = <<>>
       /\ N >= 1 => lastAck.calls = <<[key |-> KeyOf(lastAck.w),
                                       cursor |-> LastOp(lastAck.private).cursor]>>
\* a batch of three entries, two of them update operations, the last entry not one
C2_Witness ==
    /\ Len(lastAck.private) = 3
    /\ lastAck.n = 2
    /\ lastAck.private[3].kind # "op"
    /\ Len(lastAck.calls) = 1

\* C3: the persisted cursor of a key is absent or the cursor of an
\* acknowledged event, and it changes only in a step that handles an ACK
\* batch of a worker of that key.
C3_NoSpeculativeWrite ==
    /\ [](\A k \in Keys : persisted[k].cursor = 0 \/ persisted[k].cursor \in acked[k])
    /\ [][\A k \in Keys :
            persisted'[k].cursor # persisted[k].cursor =>
                \E w \in Workers : /\ KeyOf(w) = k
                                   /\ Len(outstanding'[w]) < Len(outstanding[w])]_vars
\* a worker has started on a resource whose in-memory cursor is not
\* acknowledged; the registry holds the record without a cursor
C3_Witness ==
    \E k \in Keys :
        /\ persisted[k].present
        /\ persisted[k].cursor = 0
        /\ table[k].cursor # 0
        /\ PendingOps(k) = 1
        /\ pc["w3"] = "running"

\* the process has been restarted and no Run has been started since
Restarted == crashes >= 1 /\ \A r \in Runs : runState[r] = "idle"

\* C4 as stated: after crash and restart the loaded cursor is the cursor of
\* the last event whose ACK batch was processed before the crash.
C4_Original ==
    Restarted =>
        \A k \in Keys : /\ table[k].cursor = lastAcked[k]
                        /\ lastAcked[k] # 0 => ~IsNew(table[k])
\* C4 (amended): after crash and restart the loaded cursor is the cursor of
\* the last update operation whose ACK batch was processed and whose registry
\* write succeeded before the crash; it is nil or the cursor of an
\* acknowledged event, and IsNew() is false whenever such a write succeeded.
C4_LoadedCursor ==
    Restarted =>
        \A k \in Keys :
            /\ table[k].cursor = lastDurable[k]
            /\ table[k].cursor = 0 \/ table[k].cursor \in acked[k]
            /\ lastDurable[k] # 0 => table[k].exists /\ ~IsNew(table[k])
\* restart after two events were published and only the first was acknowledged
C4_Witness ==
    /\ Restarted
    /\ published = 2
    /\ table[KeyOf("w3")].cursor = 1
    /\ ~IsNew(table[KeyOf("w3")])

\* C5: pending is at least 1 while a worker waits for or holds the resource
\* or an update operation of the key is not executed yet; Finished() is false.
C5_PendingWhileOwned ==
    \A k \in Keys :
        Owners(k) >= 1 => /\ table[k].exists
                          /\ table[k].pending >= 1
                          /\ ~Finished(table[k])
\* the worker is gone, its update operation is the only owner left
C5_Witness ==
    /\ pc["w1"] = "done"
    /\ pc["w3"] = "idle"
    /\ PendingOps(KeyOf("w1")) = 1
    /\ table[KeyOf("w1")].pending = 1

\* C6: handling an ACK batch with n update operations lowers pending by
\* exactly n, and pending is 0 once no worker and no update operation is left.
C6_AckBalance ==
    /\ [](\A k \in Keys : Owners(k) = 0 => table[k].pending = 0)
    /\ [][\A w \in Workers :
            (crashes' = crashes /\ Len(outstanding'[w]) < Len(outstanding[w])) =>
                LET private == SubSeq(outstanding[w], 1,
                                      Len(outstanding[w]) - Len(outstanding'[w]))
                    n == Cardinality(OpIndices(private))
                IN table'[KeyOf(w)].pending = table[KeyOf(w)].pending - n]_vars
\* a batch of two update operations was collapsed after the worker had
\* returned, and nothing is pending
C6_Witness ==
    /\ lastAck.n = 2
    /\ pc["w3"] = "done"
    /\ Owners(KeyOf("w3")) = 0
    /\ table[KeyOf("w3")].exists
    /\ table[KeyOf("w3")].pending = 0

\* C7: Create returns primary's runner when primary succeeds, fallback's
\* result when primary fails with the unknown-input error, and primary's error
\* when primary fails with any other error.
C7_CreateFallback ==
    ld.createDone =>
        ld.createResult =
            IF ld.primary.err = NoError THEN ld.primary
            ELSE IF IsUnknownInputError(ld.primary.err) THEN ld.fallback
            ELSE [runner |-> "", err |-> ld.primary.err]

\* C8: CheckConfig returns nil when primary accepts, fallback's result when
\* primary fails with the unknown-input error, and primary's error when primary
\* fails with any other error.
C8_CheckConfigFallback ==
    ld.checkDone =>
        ld.checkResult =
            IF ld.primary.err = NoError THEN NoError
            ELSE IF IsUnknownInputError(ld.primary.err) THEN ld.fallback.err
            ELSE ld.primary.err

C11_CancelNotError ==
    \A r \in Runs :
        runState[r] = "returned" =>
            /\ \A e \in runResult[r].errs : e[2].kind # "canceled"
            /\ (\A w \in WorkersOf(r) : werr[w] \in {NilErr, CanceledErr}) =>
                   runResult[r].isNil

\* the registries of the tree in the documented lookup order: a registry
\* before its sub-registries, the sub-registries in insertion order
LookupOrder == <<"root", "sub1", "sub1.1", "sub2">>
\* positions in LookupOrder of the registries that hold a plugin called name
Hits(name) == {i \in 1..Len(LookupOrder) : name \in rg.plugins[LookupOrder[i]]}
FirstHit(name) == LookupOrder[CHOOSE i \in Hits(name) : \A j \in Hits(name) : i <= j]

\* C12: in the step in which a started worker's internal update succeeds, the
\* persisted record gets the configured cleanTimeout as ttl and an updated
\* instant no older than the worker's start.
C12_TTLRefresh ==
    [][\A w \in Workers :
          (pc[w] = "locked" /\ pc'[w] = "running" /\ table'[KeyOf(w)].internalInSync) =>
              /\ persisted'[KeyOf(w)].present
              /\ persisted'[KeyOf(w)].ttl = cleanTimeout(RunOf(w))
              /\ persisted'[KeyOf(w)].updated >= started[w]]_vars

\* C14: Find(name) returns the plugin called name of the first registry in
\* lookup order that has one, with a nil error; when no registry has one it
\* returns LoaderError{name, ErrUnknown}, an unknown-input error.
C14_FindOrder ==
    rg.call = "find" =>
        IF Hits(rg.name) # {}
        THEN /\ rg.plugin = Plugin(rg.name, FirstHit(rg.name))
             /\ rg.err = NoError
        ELSE /\ rg.err = LoaderError(rg.name, ErrUnknown)
             /\ IsUnknownInputError(rg.err)
             /\ rg.plugin = NoPlugin
\* the name is in a sub-registry of the first child and in the second child,
\* not in the root: Find took the one below the first child
C14_Witness ==
    /\ rg.call = "find"
    /\ rg.name = "b"
    /\ rg.plugins["root"] = {"a"}
    /\ rg.plugins["sub1"] = {}
    /\ rg.plugins["sub1.1"] = {"b"}
    /\ rg.plugins["sub2"] = {"a", "b"}
    /\ rg.plugin = Plugin("b", "sub1.1")

\* number of plugins in all registries of the tree
TotalPlugins == SumOver(RegNodes, [n \in RegNodes |-> Cardinality(rg.plugins[n])])
\* positions of the visited plugins called name
Visits(name) == {i \in 1..Len(rg.visited) : rg.visited[i].Name = name}

\* C15: for every name, the first plugin of that name Each visits is the one
\* Find returns, an unstopped Each visits every plugin once, and Each calls
\* the callback no more after it has returned false.
C15_EachOrder ==
    rg.call = "each" =>
        /\ \A name \in LookupNames :
              Visits(name) # {} =>
                  rg.visited[CHOOSE i \in Visits(name) : \A j \in Visits(name) : i <= j]
                      = RegistryFind(rg.plugins, "root", name).plugin
        /\ \A i, j \in 1..Len(rg.visited) : i # j => rg.visited[i] # rg.visited[j]
        /\ \A i \in 1..Len(rg.visited) :
              rg.visited[i].Name \in rg.plugins[rg.visited[i].Manager]
        /\ Len(rg.visited) =
              IF rg.stopAt = 0 \/ rg.stopAt > TotalPlugins THEN TotalPlugins ELSE rg.stopAt
\* the callback returned false at the second plugin, a direct plugin of the
\* root; five plugins of the root and its sub-registries stay unvisited
C15_Witness ==
    /\ rg.call = "each"
    /\ rg.stopAt = 2
    /\ Len(rg.visited) = 2
    /\ rg.visited[2].Manager = "root"
    /\ TotalPlugins = 7

\* C13: a worker's lock acquisition completes only while no other worker of
\* the key holds the resource, and a worker that waits for the lock after the
\* other worker of its key has exited eventually acquires it unless its own
\* cancellation has fired.
C13_LockHandover ==
    /\ [][\A w \in Workers :
            (pc[w] = "waiting" /\ pc'[w] = "locked") =>
                /\ ~table[KeyOf(w)].locked
                /\ Holders(KeyOf(w)) = {}]_vars
    /\ \A w, v \in {"w1", "w3"} :
          w # v =>
              ((pc[w] = "waiting" /\ pc[v] \in {"returned", "done"})
                  ~> (pc[w] = "locked" \/ cancelled[RunOf(w)]))
\* the first Run's worker has left Input.Run with a panic and the worker of
\* the second Run, not cancelled, holds the lock of the same key
C13_Witness ==
    /\ panicked["w1"] = "boom"
    /\ pc["w3"] = "locked"
    /\ ~cancelled["r2"]
    /\ table[KeyOf("w3")].locked
    /\ table[KeyOf("w3")].pending = 1

\* owners of the store with an unreleased retain: the session, a running
\* cleaner and every update operation in flight
StoreOwners ==
    (IF handle.session THEN 1 ELSE 0) + (IF handle.cleaner = "on" THEN 1 ELSE 0)
        + SumOver(Workers, [w \in Workers |-> Cardinality(OpIndices(outstanding[w]))])

C17_CancelledLock ==
    /\ [][\A w \in Workers :
            (pc[w] = "connected" /\ pc'[w] = "waiting") =>
                table'[KeyOf(w)].pending = table[KeyOf(w)].pending + 1]_vars
    /\ [][\A w \in Workers :
            (pc[w] = "waiting" /\ cancelled[RunOf(w)] /\ pc'[w] # "waiting") =>
                /\ pc'[w] = "returned"
                /\ werr'[w] = CanceledErr
                /\ table'[KeyOf(w)].pending = table[KeyOf(w)].pending - 1
                /\ table'[KeyOf(w)].locked = table[KeyOf(w)].locked]_vars
\* the second Run's worker was cancelled while the first Run's worker held the
\* lock; the holder's retain is the only one left and no record was written
C17_Witness ==
    /\ pc["w3"] = "returned"
    /\ werr["w3"] = CanceledErr
    /\ pc["w1"] = "locked"
    /\ ~persisted[KeyOf("w1")].present
    /\ table[KeyOf("w3")].locked
    /\ table[KeyOf("w3")].pending = 1

\* C18: a Publish call made when the cancellation of every running worker
\* has fired hands nothing to the pipeline, creates no update operation and
\* leaves the resources, the registry and the store's references alone.
C18_DropAfterCancel ==
    [][(published' # published /\ \A w \in Workers : pc[w] = "running" => cancelled[RunOf(w)]) =>
          /\ outstanding' = outstanding
          /\ table' = table
          /\ persisted' = persisted
          /\ handle' = handle]_vars
\* the first event went out before the cancellation, the second Publish call
\* came after it and was dropped
C18_Witness ==
    /\ cancelled["r2"]
    /\ pc["w3"] = "running"
    /\ published = 2
    /\ Len(outstanding["w3"]) = 1
    /\ table[KeyOf("w3")].cursor = 1
    /\ table[KeyOf("w3")].pending = 2

\* C19: a worker holds the resource whose key ends in its own source name, and
\* a step that handles an ACK batch of a worker changes neither the resource
\* nor the record of any worker of another source.
C19_SourceIsolation ==
    /\ [](\A w \in Workers :
            pc[w] \in {"locked", "running"} =>
                /\ KeyOf(w)[Len(KeyOf(w))] = SourceOf(w)
                /\ table[KeyOf(w)].locked)
    /\ [][\A w \in Workers :
            Len(outstanding'[w]) < Len(outstanding[w]) =>
                \A v \in Workers :
                    SourceOf(v) # SourceOf(w) =>
                        /\ table'[KeyOf(v)] = table[KeyOf(v)]
                        /\ persisted'[KeyOf(v)] = persisted[KeyOf(v)]]_vars
\* the workers of a and b run side by side, the ACK of a's event has been
\* handled, and b's record has no cursor
C19_Witness ==
    /\ pc["w1"] = "running"
    /\ pc["w2"] = "running"
    /\ lastAck.w = "w1"
    /\ lastAck.n = 1
    /\ persisted[KeyOf("w1")].cursor = 1
    /\ persisted[KeyOf("w2")].present
    /\ persisted[KeyOf("w2")].cursor = 0

\* C20: the UpdateInternal call of a starting worker either writes the
\* internal fields and leaves stored and internalInSync true, or writes
\* nothing, leaves internalInSync false and stored as it was; in both cases
\* the worker goes on to Input.Run without an error.
C20_UpdateInternalOutcome ==
    [][\A w \in Workers :
          (pc[w] = "locked" /\ pc'[w] # "locked" /\ crashes' = crashes) =>
              LET k == KeyOf(w)
                  res == [table[k] EXCEPT !.ttl = cleanTimeout(RunOf(w))]
                  written == [present |-> TRUE,
                              ttl |-> res.ttl,
                              updated |-> IF res.updated = 0 THEN now ELSE res.updated,
                              cursor |-> persisted[k].cursor]
              IN /\ pc'[w] = "running"
                 /\ werr'[w] = werr[w]
                 /\ \/ /\ persisted'[k] = written
                       /\ table'[k] = [res EXCEPT !.stored = TRUE, !.internalInSync = TRUE]
                    \/ /\ persisted'[k] = persisted[k]
                       /\ table'[k] = [res EXCEPT !.internalInSync = FALSE]]_vars
\* the persistent Update failed for a brand-new resource: the worker runs,
\* nothing is stored and the internal fields are out of sync
C20_Witness ==
    /\ pc["w3"] = "running"
    /\ werr["w3"] = NilErr
    /\ crashes = 0
    /\ ~table[KeyOf("w3")].stored
    /\ ~table[KeyOf("w3")].internalInSync
    /\ ~persisted[KeyOf("w3")].present

(* ------------------------------------------------------------------ *)
(* C21: an UpdateCursor on a resource whose internal fields are not in *)
(* sync writes the internal fields and the cursor in one transaction:  *)
(* a failed write leaves the record and the flags as they were, a      *)
(* successful one leaves the record with the resource's ttl, the new   *)
(* update timestamp and the new cursor, and sets internalInSync and    *)
(* stored.                                                             *)
(* ------------------------------------------------------------------ *)
C21_FlushWithCursor ==
    [][(lastAck' # lastAck /\ lastAck'.n >= 1 /\ ~lastAck'.inSync) =>
         LET k == KeyOf(lastAck'.w)
             op == LastOp(lastAck'.private)
         IN IF lastAck'.ok
            THEN /\ persisted'[k] = [present |-> TRUE, ttl |-> table[k].ttl,
                                     updated |-> op.ts, cursor |-> op.cursor]
                 /\ table'[k].internalInSync
                 /\ table'[k].stored
            ELSE /\ persisted'[k] = persisted[k]
                 /\ table'[k].internalInSync = table[k].internalInSync
                 /\ table'[k].stored = table[k].stored]_vars

\* a cursor update has flushed the internal fields a failed UpdateTTL left behind
C21_Witness ==
    /\ lastAck.n >= 1
    /\ ~lastAck.inSync
    /\ lastAck.ok
    /\ LET k == KeyOf(lastAck.w)
       IN /\ table[k].internalInSync
          /\ persisted[k].present
          /\ persisted[k].ttl = table[k].ttl
          /\ persisted[k].cursor = lastAck.calls[1].cursor

(* ------------------------------------------------------------------ *)
(* C22: every failed persistent update is absorbed and recorded: the   *)
(* worker's error does not change, the record stays as it was, and the *)
(* resource's internalInSync is false after the failed UpdateInternal  *)
(* of a starting worker and after the failed UpdateCursor of an ACK.   *)
(* ------------------------------------------------------------------ *)
C22_FailureRecorded ==
    [][/\ \A w \in Workers :
            (/\ pc[w] = "locked" /\ pc'[w] = "running"
             /\ persisted'[KeyOf(w)] = persisted[KeyOf(w)]
             /\ ~table'[KeyOf(w)].stored)
            => ~table'[KeyOf(w)].internalInSync /\ werr'[w] = werr[w]
       /\ (lastAck' # lastAck /\ lastAck'.n >= 1 /\ ~lastAck'.ok) =>
              /\ persisted' = persisted
              /\ werr' = werr
              /\ ~table'[KeyOf(lastAck'.w)].internalInSync]_vars

(* ------------------------------------------------------------------ *)
(* C23: a client is connected only while its worker is between         *)
(* ConnectWith and the return of runSource, a resource is locked only  *)
(* while a worker is between lock and the return of runSource, and the *)
(* retains of a resource are those of its waiting and holding workers  *)
(* and of the update operations in flight: a worker that has returned, *)
(* by whichever path, holds no client, no lock and no retain.          *)
(* ------------------------------------------------------------------ *)
C23_ReleasedOnExit ==
    /\ \A w \in Workers :
          clientOpen[w] => pc[w] \in {"connected", "waiting", "locked", "running"}
    /\ \A k \in Keys :
          /\ table[k].locked => Holders(k) # {}
          /\ table[k].pending = Owners(k)

\* one worker has returned from a panic in Input.Run, another from a cancelled
\* lock, a third from a failed connect; no client is left open and no lock taken
C23_Witness ==
    /\ \E w \in Workers : pc[w] = "done" /\ panicked[w] # ""
    /\ \E w \in Workers : pc[w] = "done" /\ werr[w] = CanceledErr /\ started[w] > 0
                             /\ ~table[KeyOf(w)].locked
    /\ \E w \in Workers : pc[w] = "done" /\ werr[w] = ConnectErr
    /\ \A w \in Workers : ~clientOpen[w]
    /\ \A k \in Keys : ~table[k].locked /\ table[k].pending = 0

(* ------------------------------------------------------------------ *)
(* C27: a worker takes its steps in the order connect, lock, internal  *)
(* update, Input.Run.  It goes on from the connect only with a         *)
(* connected client; the registry is written only by the internal      *)
(* update of a worker that holds the lock of the key it writes;        *)
(* Input.Run runs only under the lock; a worker whose connect or lock  *)
(* fails returns that error and has written nothing to the registry.   *)
(* ------------------------------------------------------------------ *)
WorkerOrder ==
    {<<"idle", "start">>, <<"start", "connected">>, <<"start", "returned">>,
     <<"connected", "waiting">>, <<"waiting", "locked">>, <<"waiting", "returned">>,
     <<"locked", "running">>, <<"running", "returned">>, <<"returned", "done">>}

C27_WorkerOrder ==
    [][/\ \A w \in Workers :
            LET k == KeyOf(w)
                step == <<pc[w], pc'[w]>>
            IN /\ pc'[w] # pc[w] => step \in WorkerOrder
               /\ step = <<"start", "connected">> => clientOpen'[w] /\ werr'[w] = NilErr
               /\ step = <<"start", "returned">> =>
                     werr'[w] = ConnectErr /\ persisted' = persisted /\ table' = table
               /\ step = <<"waiting", "locked">> =>
                     ~table[k].locked /\ table'[k].locked /\ persisted' = persisted
               /\ step = <<"waiting", "returned">> =>
                     werr'[w] = CanceledErr /\ persisted' = persisted
               /\ pc'[w] \in {"locked", "running"} => table'[k].locked
       /\ \A k \in Keys :
            persisted'[k] # persisted[k] =>
                \E w \in Workers : /\ KeyOf(w) = k
                                    /\ pc[w] = "locked" /\ pc'[w] = "running"
                                    /\ table[k].locked]_vars

\* one worker has returned the connect error, one the lock error; neither has
\* written its record, a third runs its Input under the lock with its record written
C27_Witness ==
    /\ \E w \in Workers : /\ pc[w] = "done" /\ werr[w] = ConnectErr
                           /\ ~persisted[KeyOf(w)].present
    /\ \E w \in Workers : /\ pc[w] = "done" /\ werr[w] = CanceledErr
                           /\ ~persisted[KeyOf(w)].present
    /\ \E w \in Workers : /\ pc[w] = "running" /\ table[KeyOf(w)].locked
                           /\ persisted[KeyOf(w)].present

(* ------------------------------------------------------------------ *)
(* C24: Find on a present key hands out the resource of the key with   *)
(* pending one higher; on an absent key it returns nil and leaves the  *)
(* table alone if create is false, and installs a fresh resource with  *)
(* stored false, nil cursor and pending 1 if create is true.  However  *)
(* the calls of a worker and of other callers interleave, a key's      *)
(* resource is never replaced once it exists, and its pending counts   *)
(* every caller that was handed the resource and has not released it.  *)
(* ------------------------------------------------------------------ *)
FindStep(k, create) ==
    /\ \A j \in Keys \ {k} : table'[j] = table[j]
    /\ IF table[k].exists
       THEN table'[k] = [table[k] EXCEPT !.pending = @ + 1]
       ELSE IF ~create
            THEN table'[k] = table[k]
            ELSE table'[k] = [exists |-> TRUE, pending |-> 1, locked |-> FALSE,
                              stored |-> FALSE, internalInSync |-> FALSE,
                              ttl |-> 0, updated |-> 0, cursor |-> 0]

C24_FindSemantics ==
    [][/\ (sc'.calls = sc.calls + 1) =>
            /\ FindStep(sc'.key, sc'.create)
            /\ sc'.result = IF table[sc'.key].exists \/ sc'.create THEN sc'.key ELSE <<>>
       /\ \A w \in Workers :
            (pc[w] = "connected" /\ pc'[w] = "waiting") => FindStep(KeyOf(w), TRUE)
       /\ \A k \in Keys :
            /\ table[k].exists => table'[k].exists
            /\ table'[k].pending = Cardinality({w \in Workers : KeyOf(w) = k /\
                                        pc'[w] \in {"waiting", "locked", "running"}})
                                   + sc'.held[k]]_vars

\* two callers and a worker share the resource of one key; a Find without
\* create on the other key has just returned nil and installed nothing
C24_Witness ==
    /\ sc.op = "find" /\ ~sc.create /\ sc.result = <<>>
    /\ ~table[sc.key].exists
    /\ \E k \in Keys : /\ sc.held[k] = 2
                        /\ Holders(k) # {}
                        /\ table[k].pending = 3

(* ------------------------------------------------------------------ *)
(* C25: at startup, before any Run has started, the table holds        *)
(* exactly the records of the registry that carry the input type's     *)
(* prefix and decode; each is installed with stored true, pending 0,   *)
(* no lock taken and the persisted ttl, updated and cursor.  Records   *)
(* of another prefix and records that do not decode are not in it.     *)
(* ------------------------------------------------------------------ *)
C25_LoadedTable ==
    (\A r \in Runs : runState[r] = "idle") =>
        /\ DOMAIN table = DOMAIN persisted
        /\ \A k \in DOMAIN persisted :
              IF /\ persisted[k].present
                 /\ k[1] = managerType
                 /\ persisted[k] # BadRecord
              THEN /\ table[k].exists
                   /\ table[k].stored
                   /\ table[k].pending = 0
                   /\ ~table[k].locked
                   /\ table[k].ttl = persisted[k].ttl
                   /\ table[k].updated = persisted[k].updated
                   /\ table[k].cursor = persisted[k].cursor
              ELSE ~table[k].exists

\* after a restart: one record of the input type is loaded, one that does not
\* decode is skipped, and the record of another input type is left out
C25_Witness ==
    /\ crashes = 1
    /\ \A r \in Runs : runState[r] = "idle"
    /\ \E k \in Keys : persisted[k].present /\ persisted[k] # BadRecord /\ table[k].exists
    /\ \E k \in Keys : persisted[k] = BadRecord /\ ~table[k].exists
    /\ \E k \in ForeignKeys :
          persisted[k].present /\ persisted[k] # BadRecord /\ ~table[k].exists

(* ------------------------------------------------------------------ *)
(* C26: Migrate returns an error and writes nothing if the value can   *)
(* not be converted or the persistent write fails; otherwise the       *)
(* record of the key is the value alone, whatever it held before, and  *)
(* the in-memory cursor is the generic copy of the value.  No other    *)
(* field of the resource and no other key changes.                     *)
(* ------------------------------------------------------------------ *)
C26_Migrate ==
    [][(sc'.op = "migrate" /\ sc'.calls = sc.calls + 1) =>
         LET k == sc'.key
             v == sc'.value
         IN /\ \A j \in DOMAIN table \ {k} :
                  table'[j] = table[j] /\ persisted'[j] = persisted[j]
            /\ table'[k] = [table[k] EXCEPT !.cursor = table'[k].cursor]
            /\ (sc'.err = "") <=> (v.form # "chan" /\ sc'.ok)
            /\ IF sc'.err = ""
               THEN /\ persisted'[k] = [present |-> TRUE, ttl |-> v.ttl,
                                        updated |-> v.updated, cursor |-> v.cursor]
                    /\ table'[k].cursor = CursorValue([v EXCEPT !.form = "map"])
               ELSE /\ persisted'[k] = persisted[k]
                    /\ table'[k].cursor = table[k].cursor]_vars

\* a struct value was migrated over a loaded record: the record is the value,
\* the cursor its generic copy, ttl and flags of the resource are as before
C26_Witness ==
    /\ sc.op = "migrate" /\ sc.err = "" /\ sc.value.form = "struct"
    /\ persisted[sc.key] = txSet(sc.value)
    /\ table[sc.key].cursor = CursorValue([sc.value EXCEPT !.form = "map"])
    /\ table[sc.key].ttl # persisted[sc.key].ttl
    /\ table[sc.key].locked

(* ------------------------------------------------------------------ *)
(* C28                                                                 *)
(* ------------------------------------------------------------------ *)
\* a pause is in force: a flag is set and the call that set it has returned
\* (the pause flag of newEventConsumer counts as returned)
PauseHeld ==
    \/ ec.pause /\ ec.ccall # "sigPause"
    \/ ec.wait /\ ec.rcall # "sigWait"

\* C28 as stated: while a pause is in force the loop sends no batch to a work
\* queue and fetches no batch from the queue.
C28_Original ==
    [][(PauseHeld /\ PauseHeld') =>
           (ec'.sent = ec.sent /\ ec'.fetched = ec.fetched)]_vars

\* C28: the loop acts on its own copy of the flags.  While the copy is true it
\* has no work queue to send to and is not in Get; and once a flag is set,
\* the loop completes at most one send and at most one fetch after the store
\* for as long as a flag stays set.
C28_PauseObserved ==
    /\ ec.loop.paused => (ec.loop.out = 0 /\ ec.loop.pc # "get")
    /\ (ec.pause \/ ec.wait) => (ec.sentSince <= 1 /\ ec.gotSince <= 1)

\* sigPause has returned; since its store the loop has sent the batch it held
\* and fetched another one, and has now seen the flag
C28_Witness ==
    /\ ec.pause /\ ec.ccall = "" /\ ~ec.wait /\ ec.rcall = ""
    /\ ec.sentSince = 1 /\ ec.gotSince = 1
    /\ ec.loop.paused /\ ec.loop.batch # 0 /\ ec.loop.pc = "select"

UpdRunning == ec.ccall = "updOutput"
UpdReturned == ec.updates >= 1 /\ ~UpdRunning /\ ~ec.done
UpdInstalled == ec.loop.consumer = ec.consumer /\ ec.out = ec.grp

====
